---- MODULE Spec2Model ----
(***************************************************************************)
(* The session layer of the keycloak api client: Keycloak::new,            *)
(* Keycloak::refresh_if_necessary and Keycloak::with_client (lib.rs), over *)
(* the two authentication providers of auth.rs, with the two tokio RwLocks *)
(* of the Keycloak struct and a discrete clock standing for Instant::now.  *)
(***************************************************************************)
EXTENDS Integers, Sequences, FiniteSets, TLC

\* ------------------------------------------------------------------ bounds
\* number of tasks that call with_client on the one Keycloak value
NumCallers == 2
\* the clock runs from 0 to MaxTime
MaxTime == 2
\* number of successful token-endpoint exchanges (login included)
MaxTokens == 2
\* number of with_client calls over the life of the session
MaxRequests == 2

\* number of pages a paginated accessor fetches before the model stops asking
MaxPages == 3

\* ------------------------------------------------------- program constants
\* paginate_api!: const PAGE_MAX: i32 = 100
PAGE_MAX == 100
\* needs_refresh: Duration::from_secs(10)
SAFETY_MARGIN == 10

\* ------------------------------------------------------------------ inputs
Callers == 1..NumCallers
\* expires_in (e) and refresh_expires_in (re) of a TokenResponse, u32 seconds:
\* a token that expires at once with a refresh token that outlives it shortly
\* or long, and a token that outlives the safety margin
TokenResponses ==
    {[e |-> 0, re |-> 1], [e |-> 0, re |-> 30], [e |-> 12, re |-> 30]}
\* the providers of auth.rs
ProviderKinds == {"AccessToken", "DirectGrant"}
\* the ways request_tokens fails: send()/json() errors, non-success status
ExchangeErrors == {"Reqwest", "ResponseError"}
\* what a caller's callback returns
CallbackResults == {"Ok", "ApiError"}

\* Option<T> as a sequence of length at most one
None == <<>>
Some(x) == <<x>>

\* HashMap<String, _> as a function on its set of keys
EmptyMap == [k \in {} |-> k]
MapRemove(m, key) == [k \in (DOMAIN m) \ {key} |-> m[k]]
MapInsert(m, key, v) ==
    [k \in (DOMAIN m) \cup {key} |-> IF k = key THEN v ELSE m[k]]

VARIABLES
    now,        \* Instant::now()
    auth,       \* the provider: [kind, access_token, tokens]
    session,    \* progress of Keycloak::new: "init","login","logged_in","ready","failed"
    newResult,  \* Err returned by Keycloak::new: [kind, source], or None
    client,     \* bearer token of api_client.client (None before construction)
    authLock,   \* RwLock around auth:       [w, r, q]
    clientLock, \* RwLock around api_client: [w, r, q]
    pc,         \* position of each caller inside with_client
    newClient,  \* the local new_client of refresh_if_necessary, per caller
    exchanges,  \* number of successful token-endpoint exchanges so far
    requests,   \* number of with_client calls so far
    lastReturn, \* history: the latest return of with_client, or None
    loginCalls, \* history: number of calls of auth.login
    loginError, \* history: the error auth.login returned to new, or None
    req,        \* history: what is remembered of each caller's running request
    dead        \* history: some request has failed with TokenExpired

\* the locals of one expansion of paginate_api!
VARIABLES
    results,     \* let mut results = Vec::new()
    page_offset, \* let mut page_offset: Option<i32>
    first,       \* the offset bound by `while let Some($first)`
    page,        \* the page the api call returned
    pgpc,        \* position inside the accessor: "idle", "loop", "fetched",
                 \* "done" (in the expansion), "query", "answered",
                 \* "returned", "failed"
    accessor,    \* the accessor called: "clients", "client_by_id", "user_by_name"
    outcome,     \* what the accessor returned: None, or Some([ok, err, value])
    fetches      \* history: the api calls made so far, [first, max, len]

\* one call of TryFrom<PolicyRepresentation>::try_from for a policy type
VARIABLES
    target,   \* the policy type T decoded into, by its discriminant
    input,    \* history: the PolicyRepresentation try_from was given
    policy,   \* `mut value` of try_from: [type_, config]
    fields,   \* the config fields extracted so far: key -> parsed value
    dpc,      \* position: "idle", "check_type", "fields", "check_config", "done"
    decoded,  \* what try_from returned: None, or Some([ok, err, fields, policy])
    encoded   \* what Serialize makes of the decoded value, or None

sessionVars == <<now, auth, session, newResult, client, authLock, clientLock,
                 pc, newClient, exchanges, requests, lastReturn, loginCalls,
                 loginError, req, dead>>
paginateVars ==
    <<results, page_offset, first, page, pgpc, fetches, accessor, outcome>>
\* KeycloakRoleExt::users_in_role and the accessors it calls
VARIABLES
    rolePc,           \* position of the task inside the running accessor
    roleCall,         \* the accessor running: "none", "users_in_role",
                      \* "groups_in_role", "group_users"
    include_indirect, \* the argument of users_in_role
    groupsLeft,       \* groups of `for group in &groups` not yet visited
    roleNewClient,    \* the local new_client of the running refresh_if_necessary
    roleResult        \* what users_in_role returned: None, or Some(kind)

\* the body of users_in_role after its own listing (role.rs:187-199)
VARIABLES
    direct,     \* what the listing of the role's users returned
    groupLists, \* what group_users returns for each group of groups_in_role
    indirect,   \* the argument include_indirect
    users,      \* let mut users
    mergePc,    \* "idle", "listed", "loop", "returned"
    groupIdx,   \* position of `for group in &groups`
    merged      \* what users_in_role returned: None, or Some(users)

\* DirectGrantAuth and the token endpoint
VARIABLES
    grantAuth,  \* the provider: [client_id, client_secret, username, password,
                \* tokens]
    grantPc,    \* "idle", or the call awaiting its response: "login", "refresh"
    grantSent,  \* history: the forms posted, each with the call that posted it
                \* and the number of responses received before
    grantGot,   \* history: the token responses received, each with its instant
    grantResult \* what the latest login or refresh returned: None, or Some(kind)

policyVars == <<target, input, policy, fields, dpc, decoded, encoded>>
\* what the steps of the session leave alone
roleVars ==
    <<rolePc, roleCall, include_indirect, groupsLeft, roleNewClient, roleResult>>
\* what the accessors of client.rs and the policy decoder leave alone
mergeVars == <<direct, groupLists, indirect, users, mergePc, groupIdx, merged>>
grantVars == <<grantAuth, grantPc, grantSent, grantGot, grantResult>>
restVars == <<roleVars, mergeVars, grantVars>>
nonSessionVars == <<paginateVars, policyVars, restVars>>
vars == <<sessionVars, nonSessionVars>>

\* ------------------------------------------------------------- error values
\* KeycloakError::new_kind
NewKind(kind) == [kind |-> kind, source |-> None]
\* KeycloakError::new
NewError(kind, inner) == [kind |-> kind, source |-> Some(inner)]

\* ---------------------------------------------------------------- providers
\* AccessTokenAuth::new / DirectGrantAuth::new
NewAuth(kind) ==
    [kind |-> kind, access_token |-> [id |-> 0, exp |-> 0], tokens |-> None]

\* AuthenticationProvider::access_token (dispatched by Auth)
AccessToken(a) ==
    IF a.kind = "AccessToken" THEN Some(a.access_token)
    ELSE IF a.tokens = None THEN None ELSE Some(a.tokens[1].access_token)

\* a static-token provider that tracks an expiry for the token it was given
TokenIsValidByExpiry(a, t) ==
    IF a.kind = "AccessToken" THEN a.access_token.exp >= t
    ELSE IF a.tokens = None THEN FALSE ELSE a.tokens[1].expiry >= t

\* AuthenticationProvider::token_is_valid at instant t
TokenIsValid(a, t) ==
    IF a.kind = "AccessToken" THEN TRUE
    ELSE IF a.tokens = None THEN FALSE ELSE a.tokens[1].expiry >= t

\* AuthenticationProvider::needs_refresh at instant t
NeedsRefresh(a, t) ==
    IF a.kind = "AccessToken" THEN ~TokenIsValid(a, t)
    ELSE IF a.tokens = None THEN FALSE
         ELSE (a.tokens[1].expiry - SAFETY_MARGIN) < t

\* AuthenticationProvider::can_refresh at instant t
CanRefresh(a, t) ==
    IF a.kind = "AccessToken" THEN FALSE
    ELSE IF a.tokens = None THEN FALSE ELSE a.tokens[1].refresh_expiry >= t

\* An access token is the record [id, exp]: id tells the tokens of different
\* exchanges apart, exp remembers the expiry the provider computed for it.
\* DirectGrantAuth::request_tokens, the Ok arm: the Tokens built from the
\* n-th TokenResponse, received at instant t
MakeTokens(n, e, re, t) ==
    [access_token |-> [id |-> n, exp |-> t + e], expiry |-> t + e,
     refresh_token |-> n, refresh_expiry |-> t + re]

\* Keycloak::build_client: the client carries "Bearer <access_token>"
BuildClient(access_token) == access_token

\* ------------------------------------------------------------ tokio RwLock
\* a fair (FIFO, write-preferring) readers-writer lock
NewLock == [w |-> 0, r |-> {}, q |-> <<>>]

\* a lock that hands out a write guard while another write guard is held
CompatibleNoWriterCheck(l, m) ==
    IF m = "w" THEN l.r = {} ELSE l.w = 0

Compatible(l, m) ==
    IF m = "w" THEN l.w = 0 /\ l.r = {} ELSE l.w = 0

Grant(l, c, m) ==
    IF m = "w" THEN [l EXCEPT !.w = c] ELSE [l EXCEPT !.r = @ \cup {c}]

RECURSIVE Drain(_)
Drain(l) ==
    IF l.q # <<>> /\ Compatible(l, Head(l.q).m)
    THEN Drain([Grant(l, Head(l.q).c, Head(l.q).m) EXCEPT !.q = Tail(l.q)])
    ELSE l

\* RwLock::read / RwLock::write are called: granted at once, or queued
Acquire(l, c, m) ==
    IF l.q = <<>> /\ Compatible(l, m) THEN Grant(l, c, m)
    ELSE [l EXCEPT !.q = Append(@, [c |-> c, m |-> m])]

\* a lock that does not wake its waiters when a guard is dropped
ReleaseNoWake(l, c) ==
    [l EXCEPT !.w = IF @ = c THEN 0 ELSE @, !.r = @ \ {c}]

\* a guard is dropped: the waiters at the head of the queue are served
Release(l, c) ==
    Drain([l EXCEPT !.w = IF @ = c THEN 0 ELSE @, !.r = @ \ {c}])

HoldsRead(l, c) == c \in l.r
\* c holds a guard of the lock, or waits for one
InLock(l, c) == l.w = c \/ c \in l.r \/ \E i \in 1..Len(l.q) : l.q[i].c = c

\* a lock whose write guard is usable while its owner still waits for it
HoldsWriteOrWaits(l, c) == l.w = c \/ \E i \in 1..Len(l.q) : l.q[i].c = c

HoldsWrite(l, c) == l.w = c

\* ------------------------------------------------------------------ history
\* What is remembered of a running request:
\*   stale     the tokens that had already expired when it began
\*   refreshes calls of auth.refresh it made
\*   fresh     its refresh_if_necessary has returned Ok
\*   overlap   refresh_if_necessary returned Ok while another caller was inside
\*             auth.refresh, and that refresh is still in flight
\*   calls     invocations of its callback
NoRequest ==
    [stale |-> {}, refreshes |-> 0, fresh |-> FALSE, overlap |-> FALSE,
     calls |-> 0]

\* what is remembered of a return of with_client: the value returned, what
\* the callback returned ("none" when it never ran), and the request's counters
Returned(value, cbValue, r) ==
    Some([result |-> value, cbRet |-> cbValue, refreshes |-> r.refreshes,
          fresh |-> r.fresh, calls |-> r.calls])

\* some caller other than c is inside auth.refresh
RefreshInFlight(p, c) == \E d \in Callers \ {c} : p[d] = "refreshing"

\* history: refresh_if_necessary of request r returns Ok, inFlight telling
\* whether another caller is inside auth.refresh
CheckPassed(r, inFlight) == [r EXCEPT !.fresh = TRUE, !.overlap = inFlight]

\* history: the refresh of caller c ends, with rc what is remembered of c
RefreshEnded(rq, c, rc) ==
    [d \in Callers |-> IF d = c THEN rc ELSE [rq[d] EXCEPT !.overlap = FALSE]]

\* --------------------------------------------------------------------- Init
SessionInit ==
    /\ now = 0
    /\ auth \in {NewAuth(k) : k \in ProviderKinds}
    /\ session = "init"
    /\ newResult = None
    /\ client = None
    /\ authLock = NewLock
    /\ clientLock = NewLock
    /\ pc = [c \in Callers |-> "idle"]
    /\ newClient = [c \in Callers |-> None]
    /\ exchanges = 0
    /\ requests = 0
    /\ lastReturn = None
    /\ loginCalls = 0
    /\ loginError = None
    /\ req = [c \in Callers |-> NoRequest]
    /\ dead = FALSE

\* no paginated accessor is running
PaginateIdle ==
    /\ results = <<>>
    /\ page_offset = None
    /\ first = 0
    /\ page = <<>>
    /\ pgpc = "idle"
    /\ fetches = <<>>
    /\ accessor = "clients"
    /\ outcome = None

\* no policy is being decoded
PolicyIdle ==
    /\ target = "aggregate"
    /\ input = [type_ |-> None, config |-> EmptyMap]
    /\ policy = [type_ |-> None, config |-> EmptyMap]
    /\ fields = EmptyMap
    /\ dpc = "idle"
    /\ decoded = None
    /\ encoded = None

\* users_in_role is not running
RoleIdle ==
    /\ rolePc = "idle"
    /\ roleCall = "none"
    /\ include_indirect = FALSE
    /\ groupsLeft = 0
    /\ roleNewClient = None
    /\ roleResult = None

\* the body of users_in_role is not running
MergeIdle ==
    /\ direct = <<>>
    /\ groupLists = <<>>
    /\ indirect = FALSE
    /\ users = <<>>
    /\ mergePc = "idle"
    /\ groupIdx = 0
    /\ merged = None

\* no provider is looked at on its own
GrantIdle ==
    /\ grantAuth = [client_id |-> "id", client_secret |-> None,
                    username |-> "user", password |-> "pass", tokens |-> None]
    /\ grantPc = "idle"
    /\ grantSent = <<>>
    /\ grantGot = <<>>
    /\ grantResult = None

RestIdle == RoleIdle /\ MergeIdle /\ GrantIdle

Init == SessionInit /\ PaginateIdle /\ PolicyIdle /\ RestIdle

\* ---------------------------------------------------------------- the clock
Tick ==
    /\ now < MaxTime
    /\ now' = now + 1
    /\ UNCHANGED <<auth, session, newResult, client, authLock, clientLock, pc,
                   newClient, exchanges, requests, lastReturn, loginCalls,
                   loginError, req, dead>>
    /\ UNCHANGED nonSessionVars

\* ------------------------------------------------------------ Keycloak::new
\* auth.login(&config) is called. AccessTokenAuth::login returns Ok at once;
\* DirectGrantAuth::login sends the password grant and awaits the response.
NewLogin ==
    /\ session = "init"
    /\ loginCalls' = loginCalls + 1
    /\ session' = IF auth.kind = "AccessToken" THEN "logged_in" ELSE "login"
    /\ UNCHANGED <<now, auth, newResult, client, authLock, clientLock, pc,
                   newClient, exchanges, requests, lastReturn, loginError, req,
                   dead>>
    /\ UNCHANGED nonSessionVars

\* a new that returns the login error as it is
WrapLoginErrorAsIs(e) == e

\* the wrapping of a login error by Keycloak::new
WrapLoginError(e) ==
    IF e.kind = "Authentication" THEN e ELSE NewError("Authentication", e)

\* DirectGrantAuth::login: request_tokens failed; new returns the wrapped error
LoginFails ==
    /\ session = "login"
    /\ \E k \in ExchangeErrors :
          /\ loginError' = Some(NewKind(k))
          /\ newResult' = Some(WrapLoginError(NewKind(k)))
    /\ session' = "failed"
    /\ UNCHANGED <<now, auth, client, authLock, clientLock, pc, newClient,
                   exchanges, requests, lastReturn, loginCalls, req, dead>>
    /\ UNCHANGED nonSessionVars

\* DirectGrantAuth::login: request_tokens succeeded; self.tokens = Some(tokens)
LoginSucceeds ==
    /\ session = "login"
    /\ exchanges < MaxTokens
    /\ \E tr \in TokenResponses :
          auth' = [auth EXCEPT
                     !.tokens = Some(MakeTokens(exchanges + 1, tr.e, tr.re, now))]
    /\ exchanges' = exchanges + 1
    /\ session' = "logged_in"
    /\ UNCHANGED <<now, newResult, client, authLock, clientLock, pc, newClient,
                   requests, lastReturn, loginCalls, loginError, req, dead>>
    /\ UNCHANGED nonSessionVars

\* a new that does not look at token_is_valid()
NewOutcomeNoValidity(a, t) ==
    IF AccessToken(a) = None THEN "MissingAccessToken" ELSE "Ok"

\* Keycloak::new after login returned Ok: what the two checks decide
NewOutcome(a, t) ==
    IF ~TokenIsValid(a, t) THEN "MissingAccessToken"
    ELSE IF AccessToken(a) = None THEN "MissingAccessToken"
    ELSE "Ok"

\* Keycloak::new after login returned Ok: the two checks, then build_client
NewFinish ==
    /\ session = "logged_in"
    /\ IF NewOutcome(auth, now) = "Ok"
       THEN /\ client' = Some(BuildClient(AccessToken(auth)[1]))
            /\ session' = "ready"
            /\ UNCHANGED newResult
       ELSE /\ newResult' = Some(NewKind(NewOutcome(auth, now)))
            /\ session' = "failed"
            /\ UNCHANGED client
    /\ UNCHANGED <<now, auth, authLock, clientLock, pc, newClient, exchanges,
                   requests, lastReturn, loginCalls, loginError, req, dead>>
    /\ UNCHANGED nonSessionVars

\* ------------------------------------- Keycloak::with_client, step by step
\* history: the tokens a callback could still be handed (the client's and the
\* ones waiting to be installed) that have expired by instant t
\* (the session knows no expiry of the token AccessTokenAuth was given, id 0)
ExpiredTokens(t) ==
    {k.id : k \in {k \in {client[1]} \cup
                         {newClient[c][1] : c \in {d \in Callers : newClient[d] # None}} :
                     k.id # 0 /\ k.exp < t}}

\* with_client is called: refresh_if_necessary starts with self.auth.read()
StartRequest(c) ==
    /\ session = "ready"
    /\ pc[c] = "idle"
    /\ requests < MaxRequests
    /\ requests' = requests + 1
    /\ pc' = [pc EXCEPT ![c] = "auth_read"]
    /\ authLock' = Acquire(authLock, c, "r")
    /\ req' = [req EXCEPT ![c] = [NoRequest EXCEPT !.stale = ExpiredTokens(now)]]
    /\ UNCHANGED <<now, auth, session, newResult, client, clientLock,
                   newClient, exchanges, lastReturn, loginCalls, loginError,
                   dead>>
    /\ UNCHANGED nonSessionVars

\* the block under the read guard of refresh_if_necessary: what it decides
CheckOutcome(a, t) ==
    IF TokenIsValid(a, t) THEN "valid"
    ELSE IF ~CanRefresh(a, t) THEN "expired"
    ELSE "refresh"

\* refresh_if_necessary, the read guard is held: check, then drop the guard
CheckToken(c) ==
    /\ pc[c] = "auth_read"
    /\ HoldsRead(authLock, c)
    /\ authLock' = Release(authLock, c)
    /\ LET o == CheckOutcome(auth, now)
       IN IF o = "expired"
          THEN /\ lastReturn' = Returned("TokenExpired", "none", req[c])
               /\ pc' = [pc EXCEPT ![c] = "idle"]
               /\ req' = [req EXCEPT ![c] = NoRequest]
               /\ dead' = TRUE
          ELSE IF o = "valid"
          THEN /\ pc' = [pc EXCEPT ![c] = "client_read_req"]
               /\ req' = [req EXCEPT ![c] =
                            CheckPassed(@, RefreshInFlight(pc, c))]
               /\ UNCHANGED <<lastReturn, dead>>
          ELSE /\ pc' = [pc EXCEPT ![c] = "auth_write_req"]
               /\ UNCHANGED <<lastReturn, req, dead>>
    /\ UNCHANGED <<now, auth, session, newResult, client, clientLock,
                   newClient, exchanges, requests, loginCalls, loginError>>
    /\ UNCHANGED nonSessionVars

\* refresh_if_necessary: self.auth.write() is called
RequestAuthWrite(c) ==
    /\ pc[c] = "auth_write_req"
    /\ authLock' = Acquire(authLock, c, "w")
    /\ pc' = [pc EXCEPT ![c] = "auth_write"]
    /\ UNCHANGED <<now, auth, session, newResult, client, clientLock,
                   newClient, exchanges, requests, lastReturn, loginCalls,
                   loginError, req, dead>>
    /\ UNCHANGED nonSessionVars

\* AuthenticationProvider::refresh up to its first await: the error it
\* returns without contacting the endpoint, or None when the grant is sent
RefreshEarlyError(a) ==
    IF a.kind = "AccessToken" THEN Some("Authentication")
    ELSE IF a.tokens = None THEN Some("MissingAccessToken")
    ELSE None

\* a refresh_if_necessary that wraps the refresh error as new wraps login's
RefreshErrorReturnWrapped(k) == "Authentication"

\* refresh_if_necessary: the `?` after auth.refresh(&config).await returns the
\* provider's error as it is (the kind k stands for the whole error)
RefreshErrorReturn(k) == k

\* refresh_if_necessary, the write guard is held: auth.refresh(&config)
RefreshSend(c) ==
    /\ pc[c] = "auth_write"
    /\ HoldsWrite(authLock, c)
    /\ LET r == [req[c] EXCEPT !.refreshes = @ + 1] IN
       IF RefreshEarlyError(auth) # None
       THEN /\ lastReturn' = Returned(RefreshErrorReturn(
                                         RefreshEarlyError(auth)[1]), "none", r)
            /\ authLock' = Release(authLock, c)
            /\ pc' = [pc EXCEPT ![c] = "idle"]
            /\ req' = [req EXCEPT ![c] = NoRequest]
       ELSE /\ pc' = [pc EXCEPT ![c] = "refreshing"]
            /\ req' = [req EXCEPT ![c] = r]
            /\ UNCHANGED <<lastReturn, authLock>>
    /\ UNCHANGED <<now, auth, session, newResult, client, clientLock,
                   newClient, exchanges, requests, loginCalls, loginError,
                   dead>>
    /\ UNCHANGED nonSessionVars

\* a refresh_if_necessary that calls auth.refresh again after it failed
RefreshFailsRetry(c) ==
    /\ pc[c] = "refreshing"
    /\ pc' = [pc EXCEPT ![c] = "auth_write"]
    /\ UNCHANGED <<now, auth, session, newResult, client, authLock, clientLock,
                   newClient, exchanges, requests, lastReturn, loginCalls,
                   loginError, req, dead>>
    /\ UNCHANGED nonSessionVars

\* DirectGrantAuth::refresh: request_tokens failed; `?` returns the error and
\* drops the write guard
RefreshFails(c) ==
    /\ pc[c] = "refreshing"
    /\ \E k \in ExchangeErrors :
          lastReturn' = Returned(RefreshErrorReturn(k), "none", req[c])
    /\ authLock' = Release(authLock, c)
    /\ pc' = [pc EXCEPT ![c] = "idle"]
    /\ req' = RefreshEnded(req, c, NoRequest)
    /\ UNCHANGED <<now, auth, session, newResult, client, clientLock,
                   newClient, exchanges, requests, loginCalls, loginError,
                   dead>>
    /\ UNCHANGED nonSessionVars

\* DirectGrantAuth::refresh: request_tokens succeeded; self.tokens is replaced,
\* build_client(new_token) is evaluated and the write guard is dropped
RefreshSucceeds(c) ==
    /\ pc[c] = "refreshing"
    /\ exchanges < MaxTokens
    /\ exchanges' = exchanges + 1
    /\ \E tr \in TokenResponses :
          LET a == [auth EXCEPT
                      !.tokens = Some(MakeTokens(exchanges + 1, tr.e, tr.re, now))]
          IN /\ auth' = a
             /\ IF AccessToken(a) = None
                THEN /\ lastReturn' =
                          Returned("MissingAccessToken", "none", req[c])
                     /\ pc' = [pc EXCEPT ![c] = "idle"]
                     /\ req' = RefreshEnded(req, c, NoRequest)
                     /\ UNCHANGED newClient
                ELSE /\ newClient' = [newClient EXCEPT ![c] =
                                       Some(BuildClient(AccessToken(a)[1]))]
                     /\ pc' = [pc EXCEPT ![c] = "client_write_req"]
                     /\ req' = RefreshEnded(req, c, req[c])
                     /\ UNCHANGED lastReturn
    /\ authLock' = Release(authLock, c)
    /\ UNCHANGED <<now, session, newResult, client, clientLock, requests,
                   loginCalls, loginError, dead>>
    /\ UNCHANGED nonSessionVars

\* refresh_if_necessary: self.api_client.write() is called
RequestClientWrite(c) ==
    /\ pc[c] = "client_write_req"
    /\ clientLock' = Acquire(clientLock, c, "w")
    /\ pc' = [pc EXCEPT ![c] = "client_write"]
    /\ UNCHANGED <<now, auth, session, newResult, client, authLock, newClient,
                   exchanges, requests, lastReturn, loginCalls, loginError,
                   req, dead>>
    /\ UNCHANGED nonSessionVars

\* refresh_if_necessary: api_client.client = new_client; Ok(())
InstallClient(c) ==
    /\ pc[c] = "client_write"
    /\ HoldsWrite(clientLock, c)
    /\ client' = newClient[c]
    /\ newClient' = [newClient EXCEPT ![c] = None]
    /\ clientLock' = Release(clientLock, c)
    /\ pc' = [pc EXCEPT ![c] = "client_read_req"]
    /\ req' = [req EXCEPT ![c] = CheckPassed(@, RefreshInFlight(pc, c))]
    /\ UNCHANGED <<now, auth, session, newResult, authLock, exchanges, requests,
                   lastReturn, loginCalls, loginError, dead>>
    /\ UNCHANGED nonSessionVars

\* with_client: self.api_client.read() is called
RequestClientRead(c) ==
    /\ pc[c] = "client_read_req"
    /\ clientLock' = Acquire(clientLock, c, "r")
    /\ pc' = [pc EXCEPT ![c] = "client_read"]
    /\ UNCHANGED <<now, auth, session, newResult, client, authLock, newClient,
                   exchanges, requests, lastReturn, loginCalls, loginError,
                   req, dead>>
    /\ UNCHANGED nonSessionVars

\* with_client, the read guard is held: cbk.call(&client)
CallbackStart(c) ==
    /\ pc[c] = "client_read"
    /\ HoldsRead(clientLock, c)
    /\ req' = [req EXCEPT ![c].calls = @ + 1]
    /\ pc' = [pc EXCEPT ![c] = "callback"]
    /\ UNCHANGED <<now, auth, session, newResult, client, authLock, clientLock,
                   newClient, exchanges, requests, lastReturn, loginCalls,
                   loginError, dead>>
    /\ UNCHANGED nonSessionVars

\* a with_client that replaces the callback's error by ErrorKind::Other
WithClientReturnMapped(r) == IF r = "Ok" THEN r ELSE "Other"

\* with_client: the value of its tail expression cbk.call(&client).await
WithClientReturn(r) == r

\* with_client: the callback's future completes; the guard is dropped
CallbackReturn(c) ==
    /\ pc[c] = "callback"
    /\ \E r \in CallbackResults :
          lastReturn' = Returned(WithClientReturn(r), r, req[c])
    /\ clientLock' = Release(clientLock, c)
    /\ pc' = [pc EXCEPT ![c] = "idle"]
    /\ req' = [req EXCEPT ![c] = NoRequest]
    /\ UNCHANGED <<now, auth, session, newResult, client, authLock, newClient,
                   exchanges, requests, loginCalls, loginError, dead>>
    /\ UNCHANGED nonSessionVars

\* ------------------------------------------------------------ paginate_api!
\* the lengths of the page a call may come back with: the server is asked for
\* at most PAGE_MAX items, and nothing in the client makes it comply
PageLens == 0..(PAGE_MAX + 1)

\* the page of n items the server returns for offset f: an item is named by
\* its position in the server's listing
PageItems(f, n) == [i \in 1..n |-> f + i]

\* a driver that goes on until a page comes back empty
HasNextPageNonEmpty(page_len) == page_len > 0

\* paginate_api!: `if page_len == PAGE_MAX as usize`
HasNextPage(page_len) == page_len = PAGE_MAX

\* a driver that starts the next page one item too far
NextOffsetSkipping(f) == f + PAGE_MAX + 1

\* paginate_api!: `$first + PAGE_MAX`
NextOffset(f) == f + PAGE_MAX

\* the accessors modelled: two built on paginate_api!, one on a single call
Accessors == {"clients", "client_by_id", "user_by_name"}

\* the ways a generated client call fails without or with an HTTP status
FetchErrors == {"Progenitor", "ResponseError"}

\* crate::error::progenitor
Progenitor(e) == NewError("ApiError", e)

\* Result::Ok / Result::Err of an accessor; value is what Ok carries
Ok(v) == [ok |-> TRUE, err |-> None, value |-> v]
Err(e) == [ok |-> FALSE, err |-> Some(e), value |-> <<>>]

\* ErrorKind::NotFound(ResourceType) / ErrorKind::NotUnique(ResourceType)
OfResource(kind, resource) == kind \o "(" \o resource \o ")"

\* a lookup that takes the last of the matches without asking for more
ExactlyOneLastWins(response, resource) ==
    IF response = <<>> THEN Err(NewKind(OfResource("NotFound", resource)))
    ELSE Ok(<<response[Len(response)]>>)

\* user_by_name / client_by_id: `if response.is_empty()` NotFound,
\* `response.pop().unwrap()`, `if !response.is_empty()` NotUnique
ExactlyOne(response, resource) ==
    IF response = <<>> THEN Err(NewKind(OfResource("NotFound", resource)))
    ELSE LET user == response[Len(response)]
             rest == SubSeq(response, 1, Len(response) - 1)
         IN IF rest # <<>>
            THEN Err(NewKind(OfResource("NotUnique", resource)))
            ELSE Ok(<<user>>)

\* a paginated accessor reaches the expansion of paginate_api!
PaginateInit ==
    /\ results = <<>>
    /\ page_offset = Some(0)
    /\ first = 0
    /\ page = <<>>
    /\ pgpc = "loop"
    /\ fetches = <<>>

\* `while let Some($first) = page_offset.take()` binds the offset, and
\* `let page = $api_call` calls the server with first and max = PAGE_MAX
PaginateFetch ==
    /\ pgpc = "loop"
    /\ page_offset # None
    /\ Len(fetches) < MaxPages
    /\ first' = page_offset[1]
    /\ page_offset' = None
    /\ \E n \in PageLens :
          /\ page' = PageItems(page_offset[1], n)
          /\ fetches' = Append(fetches,
                               [first |-> page_offset[1], max |-> PAGE_MAX,
                                len |-> n, err |-> None])
    /\ pgpc' = "fetched"
    /\ UNCHANGED <<results, accessor, outcome, sessionVars, policyVars, restVars>>

\* a page call that fails and yet lets the accessor go on to return what it
\* has collected
PaginateFetchFailsPartial ==
    /\ pgpc = "loop"
    /\ page_offset # None
    /\ Len(fetches) < MaxPages
    /\ first' = page_offset[1]
    /\ page_offset' = None
    /\ \E e \in FetchErrors :
          /\ fetches' = Append(fetches,
                               [first |-> page_offset[1], max |-> PAGE_MAX,
                                len |-> 0, err |-> Some(e)])
          /\ outcome' = Some(Ok(results))
    /\ pgpc' = "failed"
    /\ UNCHANGED <<results, page, accessor, sessionVars, policyVars, restVars>>

\* `$api_call` fails: its `.map_err(crate::error::progenitor)?` returns the
\* error from the accessor's body, out of the loop; results is dropped
PaginateFetchFails ==
    /\ pgpc = "loop"
    /\ page_offset # None
    /\ Len(fetches) < MaxPages
    /\ first' = page_offset[1]
    /\ page_offset' = None
    /\ \E e \in FetchErrors :
          /\ fetches' = Append(fetches,
                               [first |-> page_offset[1], max |-> PAGE_MAX,
                                len |-> 0, err |-> Some(e)])
          /\ outcome' = Some(Err(Progenitor(e)))
    /\ pgpc' = "failed"
    /\ UNCHANGED <<results, page, accessor, sessionVars, policyVars, restVars>>

\* the rest of the loop body: results.extend(page), then the next offset
PaginateExtend ==
    /\ pgpc = "fetched"
    /\ results' = results \o page
    /\ page_offset' = IF HasNextPage(Len(page)) THEN Some(NextOffset(first))
                      ELSE None
    /\ page' = <<>>
    /\ pgpc' = "loop"
    /\ UNCHANGED <<first, fetches, accessor, outcome, sessionVars,
                   policyVars, restVars>>

\* the loop ends on page_offset = None; the block's value is results
PaginateReturn ==
    /\ pgpc = "loop"
    /\ page_offset = None
    /\ pgpc' = "done"
    /\ UNCHANGED <<results, page_offset, first, page, fetches, accessor,
                   outcome, sessionVars, policyVars, restVars>>

\* clients: `Ok(clients)`
ClientsReturn ==
    /\ pgpc = "done"
    /\ accessor = "clients"
    /\ outcome' = Some(Ok(results))
    /\ pgpc' = "returned"
    /\ UNCHANGED <<results, page_offset, first, page, fetches, accessor,
                   sessionVars, policyVars, restVars>>

\* client_by_id after the expansion: is_empty, pop, is_empty
ClientByIdReturn ==
    /\ pgpc = "done"
    /\ accessor = "client_by_id"
    /\ outcome' = Some(ExactlyOne(results, "Client"))
    /\ pgpc' = "returned"
    /\ UNCHANGED <<results, page_offset, first, page, fetches, accessor,
                   sessionVars, policyVars, restVars>>

\* user_by_name: one get_realm_users call, without first and max; the server
\* answers with a list of any length in PageLens
UserByNameQuery ==
    /\ pgpc = "query"
    /\ \E n \in PageLens : page' = PageItems(0, n)
    /\ pgpc' = "answered"
    /\ UNCHANGED <<results, page_offset, first, fetches, accessor, outcome,
                   sessionVars, policyVars, restVars>>

\* user_by_name: the call fails, `.map_err(crate::error::progenitor)?`
UserByNameFails ==
    /\ pgpc = "query"
    /\ \E e \in FetchErrors : outcome' = Some(Err(Progenitor(e)))
    /\ pgpc' = "failed"
    /\ UNCHANGED <<results, page_offset, first, page, fetches, accessor,
                   sessionVars, policyVars, restVars>>

\* user_by_name on the response: is_empty, pop, is_empty
UserByNameReturn ==
    /\ pgpc = "answered"
    /\ outcome' = Some(ExactlyOne(page, "User"))
    /\ pgpc' = "returned"
    /\ UNCHANGED <<results, page_offset, first, page, fetches, accessor,
                   sessionVars, policyVars, restVars>>

NextPaginate ==
    \/ PaginateFetch
    \/ PaginateFetchFails
    \/ PaginateExtend
    \/ PaginateReturn
    \/ ClientsReturn
    \/ ClientByIdReturn
    \/ UserByNameQuery
    \/ UserByNameFails
    \/ UserByNameReturn

\* one call of an accessor against a server that answers each call with a
\* list of any length in PageLens or with an error; the session is not looked
\* at
InitPaginate ==
    /\ SessionInit
    /\ auth.kind = "AccessToken"
    /\ accessor \in Accessors
    /\ outcome = None
    /\ IF accessor = "user_by_name"
       THEN /\ results = <<>>
            /\ page_offset = None
            /\ first = 0
            /\ page = <<>>
            /\ pgpc = "query"
            /\ fetches = <<>>
       ELSE PaginateInit
    /\ PolicyIdle
    /\ RestIdle

SpecPaginate == InitPaginate /\ [][NextPaginate]_vars

\* ---------------------------------- TryFrom<PolicyRepresentation> (policies.rs)
\* the discriminants of the concrete policy types
PolicyTypes ==
    {"aggregate", "client", "client-scope", "group", "js", "regex", "role",
     "user"}

\* the config keys try_from takes for type t, in the order of its statements,
\* each with the function that takes it: get_policy_config_field ("string")
\* or deserialize_policy_config_field into a Vec<String> ("strings"), a Vec
\* of {id, required} definitions ("defs") or a bool ("bool")
ConfigFields(t) ==
    CASE t = "aggregate" -> <<>>
      [] t = "client" -> <<[key |-> "clients", parse |-> "strings"]>>
      [] t = "client-scope" -> <<[key |-> "clientScopes", parse |-> "defs"]>>
      [] t = "group" -> <<[key |-> "groups", parse |-> "defs"],
                          [key |-> "groupsClaim", parse |-> "string"]>>
      [] t = "js" -> <<[key |-> "code", parse |-> "string"]>>
      [] t = "regex" -> <<[key |-> "targetClaim", parse |-> "string"],
                          [key |-> "pattern", parse |-> "string"],
                          [key |-> "targetContextAttributes", parse |-> "bool"]>>
      [] t = "role" -> <<[key |-> "roles", parse |-> "defs"]>>
      [] t = "user" -> <<[key |-> "users", parse |-> "strings"]>>

\* a config value is a string; what matters of it is what serde_json makes of
\* it: the text of a JSON bool, the text of a JSON array, or no JSON at all
JsonText(kind, b, l) == [kind |-> kind, b |-> b, l |-> l]
\* the elements of a JSON array: a string, or an object with the member id
\* and, or not ("absent"), the member required
JsonString(x) == [t |-> "string", id |-> x, required |-> "absent"]
JsonObject(id, required) == [t |-> "object", id |-> id, required |-> required]
ConfigStrings ==
    {JsonText("bool", TRUE, <<>>),
     JsonText("list", FALSE, <<JsonString("a")>>),
     JsonText("list", FALSE, <<JsonObject("r1", "true"), JsonObject("r2", "absent")>>),
     JsonText("list", FALSE, <<JsonObject("r2", "false"), JsonObject("r1", "true")>>),
     JsonText("garbage", FALSE, <<>>)}

\* the keys a record handed to try_from for type t may carry in config: the
\* keys of t, a key of another policy type, and a key no type takes
CandidateKeys(t) ==
    {ConfigFields(t)[i].key : i \in 1..Len(ConfigFields(t))}
        \cup {IF t = "role" THEN "users" ELSE "roles", "fetchRoles"}
Configs(t) == UNION {[K -> ConfigStrings] : K \in SUBSET CandidateKeys(t)}

\* PolicyRepresentation, as far as try_from looks at it
PolicyRepresentations(t) ==
    [type_ : {None} \cup {Some(u) : u \in PolicyTypes}, config : Configs(t)]

\* Error::new_kind(ErrorKind::MissingField(a)) / WrongType(a, b) / Deserialize
PolicyError(kind, a, b) == [kind |-> kind, a |-> a, b |-> b]

\* a check_policy_type that builds WrongType from (actual, expected)
CheckPolicyTypeSwapped(p, expected_type) ==
    IF p.type_ = None THEN Some(PolicyError("MissingField", "type", ""))
    ELSE IF p.type_[1] # expected_type
         THEN Some(PolicyError("WrongType", p.type_[1], expected_type))
         ELSE None

\* check_policy_type: the error it returns, or None for Ok(())
CheckPolicyType(p, expected_type) ==
    IF p.type_ = None THEN Some(PolicyError("MissingField", "type", ""))
    ELSE IF p.type_[1] # expected_type
         THEN Some(PolicyError("WrongType", expected_type, p.type_[1]))
         ELSE None

\* get_policy_config_field: config.remove(field); the error or the value,
\* and the policy as it is left
GetPolicyConfigField(p, field) ==
    IF field \notin DOMAIN p.config
    THEN [err |-> Some(PolicyError("MissingField", "config." \o field, "")),
          val |-> None, policy |-> p]
    ELSE [err |-> None, val |-> Some(p.config[field]),
          policy |-> [p EXCEPT !.config = MapRemove(p.config, field)]]

\* a Deserialize that takes `required` as true wherever it is absent
FromJsonObjectRequiredByDefault(o) ==
    [id |-> o.id, required |-> (o.required # "false")]

\* Deserialize for RolePolicyRepresentationRoleDefinition (and
\* ClientScopeRepresentationClientScopeDefinition): id, and required with
\* #[serde(default)]
FromJsonObject(o) == [id |-> o.id, required |-> (o.required = "true")]

\* serde_json::from_str::<T>(&value) for T a Vec<String> ("strings"), a Vec
\* of definitions ("defs") or a bool ("bool"): the value, or None for Err
FromStr(parse, text) ==
    IF parse = "bool" /\ text.kind = "bool"
    THEN Some([t |-> "bool", v |-> text.b])
    ELSE IF /\ parse = "strings" /\ text.kind = "list"
            /\ \A i \in 1..Len(text.l) : text.l[i].t = "string"
    THEN Some([t |-> "strings", v |-> [i \in 1..Len(text.l) |-> text.l[i].id]])
    ELSE IF /\ parse = "defs" /\ text.kind = "list"
            /\ \A i \in 1..Len(text.l) : text.l[i].t = "object"
    THEN Some([t |-> "defs",
               v |-> [i \in 1..Len(text.l) |-> FromJsonObject(text.l[i])]])
    ELSE None

\* a deserialize_policy_config_field that parses before it looks whether the
\* key is there, and reports a missing key as a Deserialize error
DeserializePolicyConfigFieldLax(p, field, parse) ==
    LET g == GetPolicyConfigField(p, field) IN
    IF g.err # None \/ FromStr(parse, g.val[1]) = None
    THEN [g EXCEPT !.err = Some(PolicyError("Deserialize", "", "")),
                   !.val = None]
    ELSE [g EXCEPT !.val = FromStr(parse, g.val[1])]

\* deserialize_policy_config_field
DeserializePolicyConfigField(p, field, parse) ==
    LET g == GetPolicyConfigField(p, field) IN
    IF g.err # None THEN g
    ELSE IF FromStr(parse, g.val[1]) = None
         THEN [g EXCEPT !.err = Some(PolicyError("Deserialize", "", "")),
                        !.val = None]
         ELSE [g EXCEPT !.val = FromStr(parse, g.val[1])]

\* what try_from returns
DecodeErr(e) == Some([ok |-> FALSE, err |-> Some(e), fields |-> EmptyMap,
                      policy |-> None])
DecodeOk(fs, p) == Some([ok |-> TRUE, err |-> None, fields |-> fs,
                         policy |-> Some(p)])

\* try_from is called with a record for the type target
PolicyInit ==
    /\ target \in PolicyTypes
    /\ input \in PolicyRepresentations(target)
    /\ policy = input
    /\ fields = EmptyMap
    /\ dpc = "check_type"
    /\ decoded = None
    /\ encoded = None

\* try_from: check_policy_type(&value, T)?
DecodeCheckType ==
    /\ dpc = "check_type"
    /\ LET e == CheckPolicyType(policy, target) IN
       IF e # None
       THEN /\ decoded' = DecodeErr(e[1])
            /\ dpc' = "done"
       ELSE /\ dpc' = IF ConfigFields(target) = <<>> THEN "check_config"
                      ELSE "fields"
            /\ UNCHANGED decoded
    /\ UNCHANGED <<target, input, policy, fields, encoded, sessionVars,
                   paginateVars, restVars>>

\* try_from: the next `let field = ..._policy_config_field(&mut value, key)?`
DecodeField ==
    /\ dpc = "fields"
    /\ LET i == Cardinality(DOMAIN fields) + 1
           f == ConfigFields(target)[i]
           g == IF f.parse = "string"
                THEN GetPolicyConfigField(policy, f.key)
                ELSE DeserializePolicyConfigField(policy, f.key, f.parse)
       IN /\ policy' = g.policy
          /\ IF g.err # None
             THEN /\ decoded' = DecodeErr(g.err[1])
                  /\ dpc' = "done"
                  /\ UNCHANGED fields
             ELSE /\ fields' = MapInsert(fields, f.key, g.val[1])
                  /\ dpc' = IF i = Len(ConfigFields(target))
                            THEN "check_config" ELSE "fields"
                  /\ UNCHANGED decoded
    /\ UNCHANGED <<target, input, encoded, sessionVars, paginateVars, restVars>>

\* a check_policy_config that only reports the remaining keys
CheckPolicyConfigKeep(p) == p

\* check_policy_config: policy.config.clear()
CheckPolicyConfig(p) == [p EXCEPT !.config = EmptyMap]

\* try_from: check_policy_config(&mut value, T) clears what is left of config;
\* Ok(Self { .., policy: value })
DecodeCheckConfig ==
    /\ dpc = "check_config"
    /\ policy' = CheckPolicyConfig(policy)
    /\ decoded' = DecodeOk(fields, policy')
    /\ dpc' = "done"
    /\ UNCHANGED <<target, input, fields, encoded, sessionVars, paginateVars, restVars>>

\* Serialize of a typed field: a Vec of definitions is written with id and
\* required for every element, a Vec<String> as strings, a bool as a bool;
\* a String field holds the config text as it was
ToJson(x) ==
    IF "t" \notin DOMAIN x THEN JsonText("string", FALSE, <<x>>)
    ELSE IF x.t = "bool" THEN JsonText("bool", x.v, <<>>)
    ELSE IF x.t = "strings"
    THEN JsonText("list", FALSE, [i \in 1..Len(x.v) |-> JsonString(x.v[i])])
    ELSE JsonText("list", FALSE,
                  [i \in 1..Len(x.v) |->
                      JsonObject(x.v[i].id,
                                 IF x.v[i].required THEN "true" ELSE "false")])

\* #[derive(Serialize)] of a concrete policy type: its typed fields, and the
\* members of the embedded PolicyRepresentation (#[serde(flatten)])
EncodePolicy ==
    /\ dpc = "done"
    /\ decoded # None
    /\ decoded[1].ok
    /\ encoded' = Some([fields |-> [k \in DOMAIN decoded[1].fields |->
                                       ToJson(decoded[1].fields[k])],
                        type_ |-> decoded[1].policy[1].type_,
                        config |-> decoded[1].policy[1].config])
    /\ dpc' = "encoded"
    /\ UNCHANGED <<target, input, policy, fields, decoded, sessionVars,
                   paginateVars, restVars>>

NextPolicy ==
    \/ DecodeCheckType
    \/ DecodeField
    \/ DecodeCheckConfig
    \/ EncodePolicy

\* one call of try_from for each policy type and each record
InitPolicy ==
    /\ SessionInit
    /\ auth.kind = "AccessToken"
    /\ PaginateIdle
    /\ RestIdle
    /\ PolicyInit

SpecPolicy == InitPolicy /\ [][NextPolicy]_vars

\* ------------------------------------------------------------ specification
Next ==
    \/ Tick
    \/ NewLogin
    \/ LoginFails
    \/ LoginSucceeds
    \/ NewFinish
    \/ \E c \in Callers :
          \/ StartRequest(c)
          \/ CheckToken(c)
          \/ RequestAuthWrite(c)
          \/ RefreshSend(c)
          \/ RefreshFails(c)
          \/ RefreshSucceeds(c)
          \/ RequestClientWrite(c)
          \/ InstallClient(c)
          \/ RequestClientRead(c)
          \/ CallbackStart(c)
          \/ CallbackReturn(c)

Spec == Init /\ [][Next]_vars

\* ------------------------------------------- a session that is in service
\* The session as Keycloak::new returned it at instant 0: the provider holds
\* what its login stored, the client carries that access token, nobody is
\* inside with_client.  The exchanges of the run are counted from here, so
\* the login's tokens bear the number 0 and the refreshes' tokens 1, 2, ...
ReadySession ==
    /\ now = 0
    /\ \/ auth = NewAuth("AccessToken")
       \/ \E tr \in TokenResponses :
             auth = [NewAuth("DirectGrant") EXCEPT
                       !.tokens = Some(MakeTokens(0, tr.e, tr.re, 0))]
    /\ NewOutcome(auth, now) = "Ok"
    /\ session = "ready"
    /\ newResult = None
    /\ client = Some(BuildClient(AccessToken(auth)[1]))
    /\ authLock = NewLock
    /\ clientLock = NewLock
    /\ pc = [c \in Callers |-> "idle"]
    /\ newClient = [c \in Callers |-> None]
    /\ exchanges = 0
    /\ requests = 0
    /\ lastReturn = None
    /\ loginCalls = 1
    /\ loginError = None
    /\ req = [c \in Callers |-> NoRequest]
    /\ dead = FALSE

InitReady == ReadySession /\ PaginateIdle /\ PolicyIdle /\ RestIdle

\* what one caller does next inside with_client
CallerStep(c) ==
    \/ StartRequest(c)
    \/ CheckToken(c)
    \/ RequestAuthWrite(c)
    \/ RefreshSend(c)
    \/ RefreshFails(c)
    \/ RefreshSucceeds(c)
    \/ RequestClientWrite(c)
    \/ InstallClient(c)
    \/ RequestClientRead(c)
    \/ CallbackStart(c)
    \/ CallbackReturn(c)

NextReady ==
    \/ Tick
    \/ \E c \in Callers : CallerStep(c)

SpecReady == InitReady /\ [][NextReady]_vars

\* fair scheduling: a task that can take a step of with_client is not left
\* out forever; the callbacks and the token exchanges are among these steps,
\* so they end
FairCallers == \A c \in Callers : WF_vars(CallerStep(c))

SpecFair == Init /\ [][Next]_vars /\ FairCallers

\* ------------------------------------------------ users_in_role, step by step
\* One task runs users_in_role on a session in service.  users_in_role, and
\* each accessor it calls, begins with refresh_if_necessary().await? and
\* `let api_client = self.api_client.read().await`, a guard it keeps until it
\* returns.  The guards are told apart by who took them.
Outer == NumCallers + 1
Nested == NumCallers + 2

\* the most groups a role is listed with
MaxGroups == 2

\* the owner of the guards of the accessor that is running
RoleId == IF roleCall = "users_in_role" THEN Outer ELSE Nested

\* group_users is an accessor like groups_in_role: freshness check, shared
\* client guard, listing
GroupUsersCall ==
    /\ roleCall' = "group_users"
    /\ rolePc' = "call"

roleRest ==
    <<now, session, newResult, pc, newClient, requests, lastReturn, loginCalls,
      loginError, req, dead, include_indirect, paginateVars, policyVars,
      mergeVars, grantVars>>

\* `?`: the running accessor returns the error kind e, and so does
\* users_in_role; the guards they hold are dropped
RoleErr(e, al) ==
    /\ roleResult' = Some(e)
    /\ rolePc' = "returned"
    /\ roleCall' = "none"
    /\ authLock' = al
    /\ clientLock' = Release(Release(clientLock, Nested), Outer)

\* users_in_role: Ok(users); the guard of users_in_role is dropped
RoleOk ==
    /\ roleResult' = Some("Ok")
    /\ rolePc' = "returned"
    /\ roleCall' = "none"
    /\ clientLock' = Release(clientLock, Outer)

\* refresh_if_necessary: self.auth.read() is called
RoleAuthRead ==
    /\ rolePc = "call"
    /\ authLock' = Acquire(authLock, RoleId, "r")
    /\ rolePc' = "auth_read"
    /\ UNCHANGED <<auth, client, clientLock, exchanges, roleCall, groupsLeft,
                   roleNewClient, roleResult, roleRest>>

\* refresh_if_necessary, the read guard is held: check, then drop the guard
RoleCheckToken ==
    /\ rolePc = "auth_read"
    /\ HoldsRead(authLock, RoleId)
    /\ LET o == CheckOutcome(auth, now)
           al == Release(authLock, RoleId)
       IN IF o = "expired" THEN RoleErr("TokenExpired", al)
          ELSE /\ authLock' = al
               /\ rolePc' = IF o = "valid" THEN "client_read_req"
                            ELSE "auth_write_req"
               /\ UNCHANGED <<clientLock, roleCall, roleResult>>
    /\ UNCHANGED <<auth, client, exchanges, groupsLeft, roleNewClient, roleRest>>

\* refresh_if_necessary: self.auth.write() is called
RoleAuthWrite ==
    /\ rolePc = "auth_write_req"
    /\ authLock' = Acquire(authLock, RoleId, "w")
    /\ rolePc' = "auth_write"
    /\ UNCHANGED <<auth, client, clientLock, exchanges, roleCall, groupsLeft,
                   roleNewClient, roleResult, roleRest>>

\* refresh_if_necessary, the write guard is held: auth.refresh(&config)
RoleRefreshSend ==
    /\ rolePc = "auth_write"
    /\ HoldsWrite(authLock, RoleId)
    /\ IF RefreshEarlyError(auth) # None
       THEN RoleErr(RefreshErrorReturn(RefreshEarlyError(auth)[1]),
                    Release(authLock, RoleId))
       ELSE /\ rolePc' = "refreshing"
            /\ UNCHANGED <<authLock, clientLock, roleCall, roleResult>>
    /\ UNCHANGED <<auth, client, exchanges, groupsLeft, roleNewClient, roleRest>>

\* auth.refresh failed: `?` returns the error
RoleRefreshFails ==
    /\ rolePc = "refreshing"
    /\ \E k \in ExchangeErrors :
          RoleErr(RefreshErrorReturn(k), Release(authLock, RoleId))
    /\ UNCHANGED <<auth, client, exchanges, groupsLeft, roleNewClient, roleRest>>

\* auth.refresh succeeded: the tokens are replaced, build_client(new_token)
\* is evaluated and the write guard is dropped
RoleRefreshSucceeds ==
    /\ rolePc = "refreshing"
    /\ exchanges < MaxTokens
    /\ exchanges' = exchanges + 1
    /\ \E tr \in TokenResponses :
          auth' = [auth EXCEPT
                     !.tokens = Some(MakeTokens(exchanges + 1, tr.e, tr.re, now))]
    /\ roleNewClient' = Some(BuildClient(AccessToken(auth')[1]))
    /\ authLock' = Release(authLock, RoleId)
    /\ rolePc' = "client_write_req"
    /\ UNCHANGED <<client, clientLock, roleCall, groupsLeft, roleResult,
                   roleRest>>

\* refresh_if_necessary: self.api_client.write() is called
RoleClientWrite ==
    /\ rolePc = "client_write_req"
    /\ clientLock' = Acquire(clientLock, RoleId, "w")
    /\ rolePc' = "client_write"
    /\ UNCHANGED <<auth, client, authLock, exchanges, roleCall, groupsLeft,
                   roleNewClient, roleResult, roleRest>>

\* refresh_if_necessary: api_client.client = new_client; Ok(())
RoleInstallClient ==
    /\ rolePc = "client_write"
    /\ HoldsWrite(clientLock, RoleId)
    /\ client' = roleNewClient
    /\ roleNewClient' = None
    /\ clientLock' = Release(clientLock, RoleId)
    /\ rolePc' = "client_read_req"
    /\ UNCHANGED <<auth, authLock, exchanges, roleCall, groupsLeft, roleResult,
                   roleRest>>

\* the accessor: self.api_client.read() is called
RoleClientRead ==
    /\ rolePc = "client_read_req"
    /\ clientLock' = Acquire(clientLock, RoleId, "r")
    /\ rolePc' = "client_read"
    /\ UNCHANGED <<auth, client, authLock, exchanges, roleCall, groupsLeft,
                   roleNewClient, roleResult, roleRest>>

\* the accessor's listing succeeds.  users_in_role goes on in its body; a
\* called accessor returns its list and drops its guard, groups_in_role
\* with any number of groups, group_users for the group being visited
RoleList ==
    /\ rolePc = "client_read"
    /\ HoldsRead(clientLock, RoleId)
    /\ IF roleCall = "users_in_role"
       THEN /\ rolePc' = "listed"
            /\ UNCHANGED <<clientLock, roleCall, groupsLeft>>
       ELSE /\ clientLock' = Release(clientLock, Nested)
            /\ roleCall' = "users_in_role"
            /\ rolePc' = "loop"
            /\ IF roleCall = "groups_in_role"
               THEN groupsLeft' \in 0..MaxGroups
               ELSE groupsLeft' = groupsLeft - 1
    /\ UNCHANGED <<auth, client, authLock, exchanges, roleNewClient, roleResult,
                   roleRest>>

\* a page call of the listing fails: `.map_err(crate::error::progenitor)?`
RoleListFails ==
    /\ rolePc = "client_read"
    /\ HoldsRead(clientLock, RoleId)
    /\ RoleErr("ApiError", authLock)
    /\ UNCHANGED <<auth, client, exchanges, groupsLeft, roleNewClient, roleRest>>

\* users_in_role: `if include_indirect { self.groups_in_role(..).await? ..`
RoleIndirect ==
    /\ rolePc = "listed"
    /\ IF include_indirect
       THEN /\ roleCall' = "groups_in_role"
            /\ rolePc' = "call"
            /\ UNCHANGED <<clientLock, roleResult>>
       ELSE RoleOk
    /\ UNCHANGED <<auth, client, authLock, exchanges, groupsLeft, roleNewClient,
                   roleRest>>

\* users_in_role: `for group in &groups { self.group_users(..).await? ..`,
\* and Ok(users) after the last group
RoleLoop ==
    /\ rolePc = "loop"
    /\ IF groupsLeft > 0
       THEN /\ GroupUsersCall
            /\ UNCHANGED <<clientLock, roleResult>>
       ELSE RoleOk
    /\ UNCHANGED <<auth, client, authLock, exchanges, groupsLeft, roleNewClient,
                   roleRest>>

\* a step of the task that runs users_in_role
RoleStep ==
    \/ RoleAuthRead
    \/ RoleCheckToken
    \/ RoleAuthWrite
    \/ RoleRefreshSend
    \/ RoleRefreshFails
    \/ RoleRefreshSucceeds
    \/ RoleClientWrite
    \/ RoleInstallClient
    \/ RoleClientRead
    \/ RoleList
    \/ RoleListFails
    \/ RoleIndirect
    \/ RoleLoop

\* the clock, as Tick, while users_in_role runs
RoleTick ==
    /\ now < MaxTime
    /\ now' = now + 1
    /\ UNCHANGED <<auth, session, newResult, client, authLock, clientLock, pc,
                   newClient, exchanges, requests, lastReturn, loginCalls,
                   loginError, req, dead, paginateVars, policyVars, restVars>>

NextRole ==
    \/ RoleTick
    \/ RoleStep

\* users_in_role is called, with either value of include_indirect, on a
\* session in service that no other task uses
InitRole ==
    /\ ReadySession
    /\ PaginateIdle
    /\ PolicyIdle
    /\ rolePc = "call"
    /\ roleCall = "users_in_role"
    /\ include_indirect \in BOOLEAN
    /\ groupsLeft = 0
    /\ roleNewClient = None
    /\ roleResult = None
    /\ MergeIdle
    /\ GrantIdle

SpecRole == InitRole /\ [][NextRole]_vars

\* --------------------------------------- users_in_role: merging the listings
\* UserRepresentation, as far as users_in_role looks at it: id is an
\* Option<String>; one user has none
Users ==
    {[id |-> Some("u1"), username |-> "a"],
     [id |-> Some("u2"), username |-> "b"],
     [id |-> None, username |-> "x"]}

\* the listings without a repeated user, in every order
RECURSIVE Listings(_)
Listings(S) ==
    {<<>>} \cup UNION {{<<u>> \o l : l \in Listings(S \ {u})} : u \in S}

\* a retain that keeps every user
RetainAll(group_users, us) == group_users

\* group_users.retain(|group_user| !users.iter().any(|u| u.id == group_user.id))
Retain(group_users, us) ==
    SelectSeq(group_users,
              LAMBDA gu : ~\E i \in 1..Len(us) : us[i].id = gu.id)

otherThanMerge == <<sessionVars, paginateVars, policyVars, roleVars, grantVars>>

\* `if include_indirect {`: the groups are listed, or Ok(users) at once
MergeIndirect ==
    /\ mergePc = "listed"
    /\ IF indirect
       THEN /\ mergePc' = "loop"
            /\ groupIdx' = 1
            /\ UNCHANGED merged
       ELSE /\ mergePc' = "returned"
            /\ merged' = Some(users)
            /\ UNCHANGED groupIdx
    /\ UNCHANGED <<direct, groupLists, indirect, users, otherThanMerge>>

\* one turn of `for group in &groups`: group_users, retain, extend
MergeGroup ==
    /\ mergePc = "loop"
    /\ groupIdx <= Len(groupLists)
    /\ users' = users \o Retain(groupLists[groupIdx], users)
    /\ groupIdx' = groupIdx + 1
    /\ UNCHANGED <<direct, groupLists, indirect, mergePc, merged, otherThanMerge>>

\* after the last group: Ok(users)
MergeReturn ==
    /\ mergePc = "loop"
    /\ groupIdx > Len(groupLists)
    /\ mergePc' = "returned"
    /\ merged' = Some(users)
    /\ UNCHANGED <<direct, groupLists, indirect, users, groupIdx, otherThanMerge>>

NextMerge ==
    \/ MergeIndirect
    \/ MergeGroup
    \/ MergeReturn

\* users_in_role has listed the role's users; the server holds any listings
\* for the role and for up to MaxGroups groups
InitMerge ==
    /\ SessionInit
    /\ auth.kind = "AccessToken"
    /\ PaginateIdle
    /\ PolicyIdle
    /\ RoleIdle
    /\ GrantIdle
    /\ direct \in Listings(Users)
    /\ groupLists \in UNION {[1..n -> Listings(Users)] : n \in 0..MaxGroups}
    /\ indirect \in BOOLEAN
    /\ users = direct
    /\ mergePc = "listed"
    /\ groupIdx = 0
    /\ merged = None

SpecMerge == InitMerge /\ [][NextMerge]_vars

\* ------------------------------------- DirectGrantAuth and the token endpoint
\* TokenRequest::new_password
NewPassword(client_id, client_secret, username, password) ==
    [client_id |-> client_id, client_secret |-> client_secret,
     grant |-> [variant |-> "Password", username |-> username,
                password |-> password]]

\* TokenRequest::new_refresh
NewRefresh(client_id, client_secret, refresh_token) ==
    [client_id |-> client_id, client_secret |-> client_secret,
     grant |-> [variant |-> "RefreshToken", refresh_token |-> refresh_token]]

\* a serializer that writes an absent client_secret as an empty field
ToFormEmptySecret(request) ==
    LET secret == IF request.client_secret = None THEN ""
                  ELSE request.client_secret[1]
        head == MapInsert(MapInsert(EmptyMap, "client_id", request.client_id),
                          "client_secret", secret)
    IN IF request.grant.variant = "Password"
       THEN MapInsert(MapInsert(MapInsert(head, "grant_type", "password"),
                                "username", request.grant.username),
                      "password", request.grant.password)
       ELSE MapInsert(MapInsert(head, "grant_type", "refresh_token"),
                      "refresh_token", request.grant.refresh_token)

\* #[derive(Serialize)] of TokenRequest, as `.form(&request)` posts it:
\* client_id; client_secret unless None (skip_serializing_if); the flattened
\* grant with its tag grant_type in snake_case and the variant's fields
ToForm(request) ==
    LET id == MapInsert(EmptyMap, "client_id", request.client_id)
        head == IF request.client_secret = None THEN id
                ELSE MapInsert(id, "client_secret", request.client_secret[1])
    IN IF request.grant.variant = "Password"
       THEN MapInsert(MapInsert(MapInsert(head, "grant_type", "password"),
                                "username", request.grant.username),
                      "password", request.grant.password)
       ELSE MapInsert(MapInsert(head, "grant_type", "refresh_token"),
                      "refresh_token", request.grant.refresh_token)

\* the n-th TokenResponse of the endpoint: tokens not issued before
TokenResponse(n, tr) ==
    [access_token |-> 10 + n, expires_in |-> tr.e,
     refresh_token |-> 20 + n, refresh_expires_in |-> tr.re]

\* request_tokens: Ok(Tokens { .. }) from the response and Instant::now()
RequestTokens(token, time) ==
    [access_token |-> token.access_token,
     expiry |-> time + token.expires_in,
     refresh_token |-> token.refresh_token,
     refresh_expiry |-> time + token.refresh_expires_in]

\* the most forms posted in a run
MaxSends == MaxTokens + 1

otherThanGrant ==
    <<auth, session, newResult, client, authLock, clientLock, pc, newClient,
      exchanges, requests, lastReturn, loginCalls, loginError, req, dead,
      paginateVars, policyVars, roleVars, mergeVars>>

\* login: the password grant is posted
GrantLogin ==
    /\ grantPc = "idle"
    /\ Len(grantSent) < MaxSends
    /\ grantSent' = Append(grantSent,
          [op |-> "login", after |-> Len(grantGot),
           form |-> ToForm(NewPassword(grantAuth.client_id,
                                       grantAuth.client_secret,
                                       grantAuth.username,
                                       grantAuth.password))])
    /\ grantPc' = "login"
    /\ UNCHANGED <<now, grantAuth, grantGot, grantResult, otherThanGrant>>

\* refresh: the refresh_token grant is posted with the stored refresh token,
\* or MissingAccessToken is returned when nothing is stored
GrantRefresh ==
    /\ grantPc = "idle"
    /\ Len(grantSent) < MaxSends
    /\ IF grantAuth.tokens # None
       THEN /\ grantSent' = Append(grantSent,
                  [op |-> "refresh", after |-> Len(grantGot),
                   form |-> ToForm(NewRefresh(grantAuth.client_id,
                                              grantAuth.client_secret,
                                              grantAuth.tokens[1].refresh_token))])
            /\ grantPc' = "refresh"
            /\ UNCHANGED grantResult
       ELSE /\ grantResult' = Some("MissingAccessToken")
            /\ UNCHANGED <<grantSent, grantPc>>
    /\ UNCHANGED <<now, grantAuth, grantGot, otherThanGrant>>

\* request_tokens returns Ok: self.tokens = Some(tokens); Ok(())
GrantSucceeds ==
    /\ grantPc \in {"login", "refresh"}
    /\ Len(grantGot) < MaxTokens
    /\ \E tr \in TokenResponses :
          LET token == TokenResponse(Len(grantGot) + 1, tr)
          IN /\ grantAuth' = [grantAuth EXCEPT
                                !.tokens = Some(RequestTokens(token, now))]
             /\ grantGot' = Append(grantGot, [token |-> token, time |-> now])
    /\ grantResult' = Some("Ok")
    /\ grantPc' = "idle"
    /\ UNCHANGED <<now, grantSent, otherThanGrant>>

\* request_tokens returns Err: `?` returns it, self.tokens is not touched
GrantFails ==
    /\ grantPc \in {"login", "refresh"}
    /\ \E k \in ExchangeErrors : grantResult' = Some(k)
    /\ grantPc' = "idle"
    /\ UNCHANGED <<now, grantAuth, grantSent, grantGot, otherThanGrant>>

\* the clock, as Tick
GrantTick ==
    /\ now < MaxTime
    /\ now' = now + 1
    /\ UNCHANGED <<grantVars, otherThanGrant>>

NextGrant ==
    \/ GrantLogin
    \/ GrantRefresh
    \/ GrantSucceeds
    \/ GrantFails
    \/ GrantTick

\* a DirectGrantAuth as new made it, with or without a client secret
InitGrant ==
    /\ SessionInit
    /\ auth.kind = "DirectGrant"
    /\ PaginateIdle
    /\ PolicyIdle
    /\ RoleIdle
    /\ MergeIdle
    /\ \E secret \in {None, Some("secret")} :
          grantAuth = [client_id |-> "id", client_secret |-> secret,
                       username |-> "user", password |-> "pass",
                       tokens |-> None]
    /\ grantPc = "idle"
    /\ grantSent = <<>>
    /\ grantGot = <<>>
    /\ grantResult = None

SpecGrant == InitGrant /\ [][NextGrant]_vars

\* ------------------------------------------------------------------- claims
\* the errors refresh_if_necessary can return
CheckErrors ==
    {"TokenExpired", "MissingAccessToken", "Authentication"} \cup ExchangeErrors

\* C1: a refresh call reaches the token endpoint only while the provider's
\* access token is invalid: a caller that waited for the write guard while
\* another caller refreshed does not refresh again.
C1_NoSecondRefresh ==
    [][\A c \in Callers :
          (pc[c] = "auth_write" /\ pc'[c] = "refreshing")
             => ~TokenIsValid(auth, now)]_vars

\* C2: whenever no caller holds the write guard of the provider, the bearer
\* token of the low-level client is the provider's current access token.
C2_ClientMatchesProvider ==
    (session = "ready" /\ authLock.w = 0) => client = AccessToken(auth)

\* C3: with_client invokes the callback exactly once, and only after its
\* refresh_if_necessary returned Ok; when the check fails the callback is not
\* invoked and the check's error is returned; otherwise with_client returns
\* what the callback returned.
C3_WithClientContract ==
    /\ \A c \in Callers :
          /\ req[c].calls = (IF pc[c] = "callback" THEN 1 ELSE 0)
          /\ req[c].calls > 0 => req[c].fresh
    /\ lastReturn # None =>
          LET r == lastReturn[1] IN
          IF r.fresh
          THEN r.calls = 1 /\ r.cbRet \in CallbackResults /\ r.result = r.cbRet
          ELSE r.calls = 0 /\ r.cbRet = "none" /\ r.result \in CheckErrors

\* C3 witness: a callback that ran after a refresh returned an error, and
\* with_client returned it
C3_Witness ==
    /\ lastReturn # None
    /\ lastReturn[1].refreshes = 1
    /\ lastReturn[1].cbRet = "ApiError"
    /\ lastReturn[1].result = "ApiError"

\* C4: at most one caller is inside the provider's refresh at any time, and it
\* holds the write guard of the provider.
C4_OneRefreshAtATime ==
    /\ Cardinality({c \in Callers : pc[c] = "refreshing"}) <= 1
    /\ \A c \in Callers : pc[c] = "refreshing" => HoldsWrite(authLock, c)

\* C4 witness: one caller is inside refresh while another waits for the
\* write guard
C4_Witness ==
    \E c, d \in Callers :
        /\ pc[c] = "refreshing"
        /\ pc[d] = "auth_write"
        /\ ~HoldsWrite(authLock, d)

\* C5: no request whose freshness check completed while another caller's
\* refresh was in flight reaches its callback while that refresh is still in
\* flight.
C5_NoCallbackDuringRefresh ==
    \A c \in Callers : pc[c] = "callback" => ~req[c].overlap

\* C6: the client a callback runs against carries a token that was valid at
\* some instant since the request started.
C6_TokenValidDuringRequest ==
    \A c \in Callers : pc[c] = "callback" => client[1].id \notin req[c].stale

\* C7: a freshness check lets a request through without a refresh only when
\* needs_refresh() is false or the provider cannot refresh.
C7_RefreshWhenNeeded ==
    [][\A c \in Callers :
          (pc[c] = "auth_read" /\ pc'[c] = "client_read_req")
             => ~(NeedsRefresh(auth, now) /\ CanRefresh(auth, now))]_vars

\* C8: new calls login exactly once; after a successful login it constructs
\* the session exactly when token_is_valid() holds and access_token() is
\* present, with a client carrying that token, and fails with
\* MissingAccessToken otherwise.
C8_NewContract ==
    [][/\ loginCalls' = (IF session' = "init" THEN 0 ELSE 1)
       /\ (session' = "ready" /\ session # "ready") => session = "logged_in"
       /\ (session = "logged_in" /\ session' # "logged_in") =>
             IF TokenIsValid(auth, now) /\ AccessToken(auth) # None
             THEN /\ session' = "ready"
                  /\ client' = AccessToken(auth)
                  /\ newResult' = None
             ELSE /\ session' = "failed"
                  /\ client' = None
                  /\ newResult' = Some(NewKind("MissingAccessToken"))]_vars

\* C8 witness: login succeeded, the token was no longer valid when new
\* looked, and new failed with MissingAccessToken
C8_Witness ==
    /\ session = "failed"
    /\ loginError = None
    /\ AccessToken(auth) # None
    /\ newResult = Some(NewKind("MissingAccessToken"))

\* C9: when login fails new returns an error of kind Authentication: the
\* login error itself when it is of that kind, otherwise a new error with the
\* login error as its source; new returns no error of another kind than
\* Authentication and MissingAccessToken.
C9_LoginErrorWrapped ==
    newResult # None =>
       /\ session = "failed"
       /\ newResult[1].kind \in {"Authentication", "MissingAccessToken"}
       /\ loginError # None =>
             /\ newResult[1].kind = "Authentication"
             /\ IF loginError[1].kind = "Authentication"
                THEN newResult = loginError
                ELSE newResult[1].source = loginError
       /\ loginError = None => newResult[1].kind = "MissingAccessToken"

\* C9 witness: the token endpoint rejected the credentials
C9_Witness ==
    /\ loginError = Some(NewKind("ResponseError"))
    /\ newResult # None

\* C10: a request that fails with TokenExpired called neither refresh nor its
\* callback, and once a request has failed with TokenExpired the freshness
\* check of every later request finds the token invalid and not refreshable.
C10_DeadIsTerminal ==
    /\ (lastReturn # None /\ lastReturn[1].result = "TokenExpired") =>
          (lastReturn[1].refreshes = 0 /\ lastReturn[1].calls = 0)
    /\ dead => CheckOutcome(auth, now) = "expired"

\* C11: once the provider's refresh has returned an error the session is
\* dead: the request that follows fails its check with TokenExpired (and so
\* attempts no refresh).
C11_FailedRefreshKills ==
    [][\A c \in Callers :
          (pc[c] = "refreshing" /\ pc'[c] = "idle")
              => CheckOutcome(auth', now') = "expired"]_vars

\* C12: a refresh that fails inside a request makes with_client return the
\* provider's own error (not wrapped as Authentication) without invoking the
\* callback, and leaves the provider's tokens, the installed client and the
\* clients waiting to be installed as they were.
C12_RefreshErrorPropagates ==
    [][\A c \in Callers :
          /\ (pc[c] = "refreshing" /\ pc'[c] = "idle") =>
                /\ lastReturn' # None
                /\ lastReturn'[1].result \in ExchangeErrors
                /\ lastReturn'[1].cbRet = "none"
                /\ lastReturn'[1].calls = 0
                /\ lastReturn'[1].refreshes = 1
                /\ auth' = auth
                /\ client' = client
                /\ newClient' = newClient
          /\ (pc[c] = "auth_write" /\ pc'[c] = "idle") =>
                /\ lastReturn' # None
                /\ Some(lastReturn'[1].result) = RefreshEarlyError(auth)
                /\ lastReturn'[1].calls = 0
                /\ auth' = auth
                /\ client' = client]_vars

\* C12 witness: a request has returned the token endpoint's error after its
\* one refresh, and the provider still holds the tokens of the login
C12_Witness ==
    /\ lastReturn # None
    /\ lastReturn[1].result = "ResponseError"
    /\ lastReturn[1].refreshes = 1
    /\ lastReturn[1].calls = 0
    /\ auth.tokens # None
    /\ auth.tokens[1].access_token.id = 1
    /\ client = Some(auth.tokens[1].access_token)

C14_StaticToken ==
    auth.kind = "AccessToken" =>
        /\ TokenIsValid(auth, now)
        /\ ~NeedsRefresh(auth, now)
        /\ ~CanRefresh(auth, now)
        /\ RefreshEarlyError(auth) = Some("Authentication")
        /\ AccessToken(auth) = Some(NewAuth("AccessToken").access_token)
        /\ \A c \in Callers :
              /\ pc[c] \notin {"auth_write_req", "auth_write", "refreshing",
                               "client_write_req", "client_write"}
              /\ req[c].refreshes = 0
        /\ exchanges = 0
        /\ ~dead
        /\ session \in {"init", "logged_in", "ready"}
        /\ session = "ready" => client = AccessToken(auth)
        /\ lastReturn # None =>
              /\ lastReturn[1].refreshes = 0
              /\ lastReturn[1].result \in CallbackResults

\* C14 witness: the clock has run out and the last of the allowed requests
\* has returned on a static-token session
C14_Witness ==
    /\ auth.kind = "AccessToken"
    /\ now = MaxTime
    /\ requests = MaxRequests
    /\ lastReturn # None
    /\ \A c \in Callers : pc[c] = "idle"

\* C15: the provider reports a rejected credential as Authentication: a
\* login or refresh that fails for another reason than a transport error
\* fails with Authentication (or, for refresh, MissingAccessToken).
C15_RejectionIsAuthentication ==
    /\ (loginError # None /\ loginError[1].kind # "Reqwest")
          => loginError[1].kind = "Authentication"
    /\ (lastReturn # None /\ lastReturn[1].refreshes = 1 /\ ~lastReturn[1].fresh
           /\ lastReturn[1].result # "Reqwest")
          => lastReturn[1].result \in {"Authentication", "MissingAccessToken"}

\* C16: auth.refresh is only called at an instant at which the provider's
\* can_refresh() is true.
C16_RefreshOnlyIfCanRefresh ==
    [][\A c \in Callers :
          (pc[c] = "auth_write" /\ pc'[c] # "auth_write")
              => CanRefresh(auth, now)]_vars

\* the concatenation, in call order, of the pages of the calls f[1..k]
RECURSIVE Fetched(_, _)
Fetched(f, k) ==
    IF k = 0 THEN <<>>
    ELSE Fetched(f, k - 1) \o PageItems(f[k].first, f[k].len)

\* C17: the k-th call asks for offset (k-1) * PAGE_MAX with max = PAGE_MAX,
\* and what the driver returns is the concatenation of the fetched pages in
\* call order; pages of 100, 100 and 37 items give 237 items in order.
C17_PagesConcatenated ==
    /\ \A k \in 1..Len(fetches) :
          /\ fetches[k].first = (k - 1) * PAGE_MAX
          /\ fetches[k].max = PAGE_MAX
    /\ pgpc \in {"loop", "done"} => results = Fetched(fetches, Len(fetches))
    /\ pgpc = "fetched" =>
          /\ results = Fetched(fetches, Len(fetches) - 1)
          /\ page = PageItems(first, fetches[Len(fetches)].len)
    /\ (pgpc = "done" /\ Len(fetches) = 3 /\ fetches[3].len = 37) =>
          results = [i \in 1..237 |-> i]

\* C17 witness: the driver has returned after pages of 100, 100 and 37 items
C17_Witness ==
    /\ pgpc = "done"
    /\ [k \in 1..Len(fetches) |-> fetches[k].len] = <<100, 100, 37>>
    /\ Len(results) = 237

\* C18 as stated: the driver stops after a page exactly when the page is
\* shorter than PAGE_MAX, whatever length the page has.
C18_StopsOnShortPage ==
    /\ \A k \in 1..(Len(fetches) - 1) : ~(fetches[k].len < PAGE_MAX)
    /\ (pgpc = "loop" /\ fetches # <<>>) =>
          (page_offset = None <=> fetches[Len(fetches)].len < PAGE_MAX)
    /\ (pgpc = "done") => fetches[Len(fetches)].len < PAGE_MAX

\* C18 amended: the driver stops after a page exactly when the page's length
\* differs from PAGE_MAX, which for a page of at most PAGE_MAX items means
\* shorter; a short first page gives one call, a page of exactly PAGE_MAX
\* items is followed by another call, and [100, 0] gives 2 calls, 100 items.
C18_StopsOnNonFullPage ==
    /\ \A k \in 1..(Len(fetches) - 1) : fetches[k].len = PAGE_MAX
    /\ (pgpc = "loop" /\ fetches # <<>>) =>
          (page_offset = None <=> fetches[Len(fetches)].len # PAGE_MAX)
    /\ (pgpc = "loop" /\ fetches = <<>>) => page_offset # None
    /\ pgpc = "done" =>
          /\ fetches # <<>>
          /\ fetches[Len(fetches)].len # PAGE_MAX
          /\ fetches[Len(fetches)].len <= PAGE_MAX
                => fetches[Len(fetches)].len < PAGE_MAX
          /\ fetches[1].len < PAGE_MAX => Len(fetches) = 1
          /\ (Len(fetches) = 2 /\ fetches[2].len = 0) => Len(results) = 100

\* C18 witness: the driver has returned after a full page and an empty one
C18_Witness ==
    /\ pgpc = "done"
    /\ [k \in 1..Len(fetches) |-> fetches[k].len] = <<100, 0>>
    /\ Len(results) = 100

\* the positions, in extraction order, of the config keys of t that c lacks
AbsentKeys(t, c) ==
    {i \in 1..Len(ConfigFields(t)) : ConfigFields(t)[i].key \notin DOMAIN c}

\* the positions of the structured config keys of t whose value in c is not
\* the JSON text of a value of the field's type
MalformedKeys(t, c) ==
    {i \in 1..Len(ConfigFields(t)) :
        /\ ConfigFields(t)[i].key \in DOMAIN c
        /\ ConfigFields(t)[i].parse # "string"
        /\ LET text == c[ConfigFields(t)[i].key]
               want == ConfigFields(t)[i].parse
           IN \/ text.kind # (IF want = "bool" THEN "bool" ELSE "list")
              \/ /\ want # "bool"
                 /\ \E k \in 1..Len(text.l) :
                       text.l[k].t # (IF want = "defs" THEN "object"
                                      ELSE "string")}

\* the least element of a non-empty set of positions
Least(S) == CHOOSE i \in S : \A k \in S : i <= k

\* C19: a record without a type is refused with MissingField("type"), a
\* record of another type with WrongType(T, its type), both with the config
\* untouched; config is only taken apart once the type has been found to be
\* T's. A "user" record decoded as role gives WrongType("role", "user").
C19_TypeCheckedFirst ==
    /\ (dpc = "done" /\ input.type_ = None) =>
          /\ decoded = DecodeErr(PolicyError("MissingField", "type", ""))
          /\ policy = input
    /\ (dpc = "done" /\ input.type_ # None /\ input.type_ # Some(target)) =>
          /\ decoded =
                DecodeErr(PolicyError("WrongType", target, input.type_[1]))
          /\ policy = input
    /\ (dpc \in {"fields", "check_config"} \/ policy # input \/ fields # EmptyMap)
          => input.type_ = Some(target)

\* C19 witness: a user-policy record, users and all, was decoded as role
C19_Witness ==
    /\ dpc = "done"
    /\ target = "role"
    /\ input.type_ = Some("user")
    /\ "users" \in DOMAIN input.config
    /\ decoded # None
    /\ ~decoded[1].ok

\* C20 as stated: for a record of T's type, decoding fails with MissingField
\* if and only if one of T's config keys is absent, naming the first absent
\* key; with every key there, a malformed value gives Deserialize.
C20_MissingFieldIffAbsent ==
    (dpc = "done" /\ input.type_ = Some(target)) =>
        LET absent == AbsentKeys(target, input.config)
            bad == MalformedKeys(target, input.config)
            e == decoded[1].err
        IN /\ (e # None /\ e[1].kind = "MissingField") <=> absent # {}
           /\ absent # {} =>
                 e = Some(PolicyError("MissingField",
                        "config." \o ConfigFields(target)[Least(absent)].key, ""))
           /\ (absent = {} /\ bad # {}) =>
                 e = Some(PolicyError("Deserialize", "", ""))

\* C20 amended: for a record of T's type, decoding fails exactly when one of
\* T's config keys is absent or holds a malformed structured value, and the
\* first such key in T's extraction order decides the error:
\* MissingField("config.<key>") when it is absent, Deserialize when it is
\* present but malformed.
C20_FirstBadKeyDecides ==
    (dpc = "done" /\ input.type_ = Some(target)) =>
        LET absent == AbsentKeys(target, input.config)
            bad == MalformedKeys(target, input.config)
            e == decoded[1].err
        IN IF absent \cup bad = {}
           THEN decoded[1].ok /\ e = None
           ELSE /\ ~decoded[1].ok
                /\ LET i == Least(absent \cup bad) IN
                   IF i \in absent
                   THEN e = Some(PolicyError("MissingField",
                              "config." \o ConfigFields(target)[i].key, ""))
                   ELSE e = Some(PolicyError("Deserialize", "", ""))

\* C20 witness: a regex-policy record with targetClaim and pattern but no
\* targetContextAttributes was refused
C20_Witness ==
    /\ dpc = "done"
    /\ target = "regex"
    /\ input.type_ = Some("regex")
    /\ AbsentKeys(target, input.config) = {3}
    /\ decoded # None
    /\ decoded[1].err =
          Some(PolicyError("MissingField", "config.targetContextAttributes", ""))

\* C21: a record of T's type whose config holds every key of T, well-formed,
\* decodes successfully whatever other keys config holds, and the record
\* embedded in a decoded value has an empty config.
C21_UnknownKeysTolerated ==
    /\ (dpc \in {"done", "encoded"} /\ input.type_ = Some(target)
          /\ AbsentKeys(target, input.config) = {}
          /\ MalformedKeys(target, input.config) = {})
          => decoded # None /\ decoded[1].ok
    /\ (decoded # None /\ decoded[1].ok) =>
          /\ decoded[1].policy[1].config = EmptyMap
          /\ DOMAIN decoded[1].fields =
                {ConfigFields(target)[i].key : i \in 1..Len(ConfigFields(target))}

\* C21 witness: a group-policy record that also carries a key of another
\* policy type and a key no type takes was decoded
C21_Witness ==
    /\ dpc = "done"
    /\ target = "group"
    /\ {"roles", "fetchRoles"} \subseteq DOMAIN input.config
    /\ decoded # None
    /\ decoded[1].ok

\* C22: a role-policy record decoded and encoded again has in its roles
\* field the roles of the config text, with the same ids and required flags
\* (an absent flag being false) in the same order, and has no config key.
C22_RolesRoundTrip ==
    (dpc = "encoded" /\ target = "role") =>
        LET text == input.config["roles"].l
            roles == encoded[1].fields["roles"]
        IN /\ roles.kind = "list"
           /\ Len(roles.l) = Len(text)
           /\ \A i \in 1..Len(text) :
                 /\ roles.l[i].t = "object"
                 /\ roles.l[i].id = text[i].id
                 /\ (roles.l[i].required = "true") = (text[i].required = "true")
                 /\ roles.l[i].required \in {"true", "false"}
           /\ DOMAIN encoded[1].config = {}
           /\ encoded[1].type_ = Some("role")

\* C22 witness: the role list r1 (required), r2 (no flag) went round
C22_Witness ==
    /\ dpc = "encoded"
    /\ target = "role"
    /\ input.config["roles"].l =
          <<JsonObject("r1", "true"), JsonObject("r2", "absent")>>
    /\ "fetchRoles" \in DOMAIN input.config
    /\ Len(encoded[1].fields["roles"].l) = 2

\* C23: user_by_name fails with NotFound(User) on an empty response, returns
\* the user of a response of one, and fails with NotUnique(User) on two or
\* more; client_by_id does the same with Client over the concatenation of
\* all pages fetched.
C23_ExactlyOneMatch ==
    (pgpc = "returned" /\ accessor \in {"user_by_name", "client_by_id"}) =>
        LET list == IF accessor = "user_by_name" THEN page
                    ELSE Fetched(fetches, Len(fetches))
            of == IF accessor = "user_by_name" THEN "User" ELSE "Client"
        IN /\ outcome # None
           /\ Len(list) = 0 =>
                 outcome[1] = Err(NewKind(OfResource("NotFound", of)))
           /\ Len(list) = 1 => outcome[1] = Ok(<<list[1]>>)
           /\ Len(list) >= 2 =>
                 outcome[1] = Err(NewKind(OfResource("NotUnique", of)))

\* C23 witness: client_by_id has refused a second page holding a second client
C23_Witness ==
    /\ pgpc = "returned"
    /\ accessor = "client_by_id"
    /\ [k \in 1..Len(fetches) |-> fetches[k].len] = <<100, 1>>
    /\ ~outcome[1].ok

\* C30: a failed page call is the accessor's last call, the accessor returns
\* the error of that call, and it returns no item of the pages before.
C30_FailedPageFailsAccessor ==
    /\ \A k \in 1..Len(fetches) :
          fetches[k].err # None =>
             /\ k = Len(fetches)
             /\ pgpc = "failed"
             /\ outcome = Some(Err(Progenitor(fetches[k].err[1])))
             /\ outcome[1].value = <<>>
    /\ pgpc = "failed" <=>
          (outcome # None /\ ~outcome[1].ok
             /\ outcome[1].err[1].kind = "ApiError")

\* C30 witness: the third page call failed after two full pages
C30_Witness ==
    /\ pgpc = "failed"
    /\ accessor = "clients"
    /\ Len(fetches) = 3
    /\ fetches[3].err # None
    /\ Len(results) = 200
    /\ ~outcome[1].ok

\* C24: while any caller's callback runs the client is not replaced, so every
\* callback sees one client value from its start to its end, and a running
\* callback holds the client lock shared.
C24_NoTornClient ==
    [][/\ (\E c \in Callers : pc[c] = "callback") => client' = client
       /\ \A c \in Callers : pc[c] = "callback" => HoldsRead(clientLock, c)
       /\ \A c \in Callers :
             (pc[c] = "callback" /\ pc'[c] = "callback") =>
                 HoldsRead(clientLock', c)]_vars

\* C24 witness: all callers run their callbacks at the same time, none of
\* them having refreshed
C24_Witness ==
    /\ \A c \in Callers : pc[c] = "callback" /\ req[c].refreshes = 0
    /\ Cardinality(Callers) >= 2

\* C26: when the session is ready and no caller is inside a request, the
\* client carries the provider's current access token.
C26_QuiescentConsistency ==
    (session = "ready" /\ \A c \in Callers : pc[c] = "idle") =>
        client = AccessToken(auth)

\* C27: a call of users_in_role that has not returned can take a step; no
\* other task uses the session, so a call that cannot take a step waits for
\* a guard that only the call itself holds, and never returns.
C27_NeverBlocked ==
    rolePc \notin {"idle", "returned"} => ENABLED RoleStep

\* C28: under fair scheduling every with_client call returns, and no caller
\* ever holds, or waits for, a guard of the provider lock while it holds or
\* waits for a guard of the client lock.
C28_DeadlockFree ==
    /\ [](\A c \in Callers : ~(InLock(authLock, c) /\ InLock(clientLock, c)))
    /\ \A c \in Callers : (pc[c] # "idle") ~> (pc[c] = "idle")

\* C28 witness: a caller waits for the client's write guard while another
\* caller's callback holds the read guard
C28_Witness ==
    \E c, d \in Callers :
        /\ pc[c] = "client_write"
        /\ ~HoldsWrite(clientLock, c)
        /\ pc[d] = "callback"
        /\ HoldsRead(clientLock, d)

\* the users of a sequence of listings
Members(ls) == UNION {{ls[g][i] : i \in 1..Len(ls[g])} : g \in 1..Len(ls)}

\* C29: without include_indirect users_in_role returns the direct members;
\* with it, the direct members come first, every entry after them is a
\* member of a group and every member of a group has an entry with its id;
\* and when every user has an id and no listing holds an id twice, every
\* direct or group member is returned exactly once and no two entries share
\* an id.
C29_MergedOnce ==
    mergePc = "returned" =>
        LET r == merged[1]
            all == Members(<<direct>> \o groupLists)
            distinctIds(l) ==
                \A i, k \in 1..Len(l) : l[i].id = l[k].id => i = k
        IN /\ ~indirect => r = direct
           /\ indirect =>
                 /\ Len(r) >= Len(direct)
                 /\ SubSeq(r, 1, Len(direct)) = direct
                 /\ \A k \in (Len(direct) + 1)..Len(r) :
                       r[k] \in Members(groupLists)
                 /\ \A u \in all : \E k \in 1..Len(r) : r[k].id = u.id
                 /\ ((\A u \in all : u.id # None)
                       /\ \A g \in 1..Len(groupLists) :
                             distinctIds(groupLists[g])
                       /\ distinctIds(direct))
                    => /\ \A u \in all :
                             Cardinality({k \in 1..Len(r) : r[k] = u}) = 1
                       /\ distinctIds(r)

\* C29 witness: a user listed directly and in a group, and a user listed in
\* both groups, were returned once each
C29_Witness ==
    /\ mergePc = "returned"
    /\ indirect
    /\ direct = <<[id |-> Some("u1"), username |-> "a"]>>
    /\ Len(groupLists) = 2
    /\ Len(groupLists[1]) = 2
    /\ Len(groupLists[2]) = 2
    /\ \A g \in 1..2, i \in 1..2 : groupLists[g][i].id # None
    /\ Len(merged[1]) = 2

\* C25: every form posted by login is the password grant of the configured
\* client and user, every form posted by refresh is the refresh_token grant
\* with the refresh token of the latest response received before it; a form
\* has a client_secret exactly when the provider has one; and the stored
\* tokens are the access token, the refresh token and the two expiries of
\* the latest response.
C25_GrantForms ==
    /\ \A k \in 1..Len(grantSent) :
          LET f == grantSent[k].form
              own == (DOMAIN f) \ {"client_secret"}
          IN /\ f["client_id"] = grantAuth.client_id
             /\ "client_secret" \in DOMAIN f <=> grantAuth.client_secret # None
             /\ "client_secret" \in DOMAIN f =>
                   f["client_secret"] = grantAuth.client_secret[1]
             /\ grantSent[k].op = "login" =>
                   /\ own = {"client_id", "grant_type", "username", "password"}
                   /\ f["grant_type"] = "password"
                   /\ f["username"] = grantAuth.username
                   /\ f["password"] = grantAuth.password
             /\ grantSent[k].op = "refresh" =>
                   /\ own = {"client_id", "grant_type", "refresh_token"}
                   /\ f["grant_type"] = "refresh_token"
                   /\ grantSent[k].after >= 1
                   /\ f["refresh_token"] =
                         grantGot[grantSent[k].after].token.refresh_token
    /\ grantAuth.tokens = None <=> grantGot = <<>>
    /\ grantGot # <<>> =>
          LET last == grantGot[Len(grantGot)]
          IN grantAuth.tokens[1] =
                [access_token |-> last.token.access_token,
                 expiry |-> last.time + last.token.expires_in,
                 refresh_token |-> last.token.refresh_token,
                 refresh_expiry |-> last.time + last.token.refresh_expires_in]

\* C25 witness: a provider without a client secret posted a refresh after a
\* login and a refresh had succeeded
C25_Witness ==
    /\ grantAuth.client_secret = None
    /\ \E k \in 1..Len(grantSent) :
          /\ grantSent[k].op = "refresh"
          /\ grantSent[k].after = 2
          /\ grantSent[k].form["refresh_token"] = 22

====
